---- MODULE Spec2Model ----
(***************************************************************************)
(* A model of convert_fnb_to_investec.py: the strategy selector and main,  *)
(* the OCR line state machine, the two record assemblers, the table-row    *)
(* parser, name cleaning, deduplication and the Investec output mapping.   *)
(* Text is modelled by real strings; the regular expressions of the source *)
(* are operators over the characters of a string.                          *)
(***************************************************************************)
EXTENDS Integers, Sequences, FiniteSets, TLC

VARIABLES
    pc,                 \* position of the running function
    method,             \* args.method / extract_recipients' method
    pdf_exists,         \* pdf_path.exists()
    fitz,               \* module global fitz is not None
    pdfplumber,         \* module global pdfplumber is not None
    pytesseract,        \* module globals pytesseract and Image are not None
    methods_to_try,     \* extract_recipients: the strategy names, in order
    mi,                 \* extract_recipients: index of the next strategy
    recipients,         \* the record list being built or returned
    calls,              \* every extract_func(pdf_path) call made, with its outcome
    investec_records,   \* main: the mapped records
    csvfile,            \* write_investec_csv: the rows written
    exit_code,          \* the process's exit status, -1 while it runs
    exception,          \* the exception that left extract_recipients, or "none"
    lines,              \* parse_fnb_text: text.split('\n')
    i,                  \* parse_fnb_text: index of the next line
    current_name,       \* parse_fnb_text: pending name, "" for None
    current_account,    \* parse_fnb_text: pending account, "" for None
    current_reference,  \* parse_fnb_text: pending reference, "" for None
    arg,                \* the argument of the pure function applied
    result              \* its return value

vars == << pc, method, pdf_exists, fitz, pdfplumber, pytesseract, methods_to_try,
           mi, recipients, calls, investec_records, csvfile, exit_code, exception,
           lines, i, current_name, current_account, current_reference, arg, result >>

mainVars == << method, pdf_exists, fitz, pdfplumber, pytesseract, methods_to_try,
               mi, calls, investec_records, csvfile, exit_code, exception >>
ocrVars  == << lines, i, current_name, current_account, current_reference >>
fnVars   == << arg, result >>

----------------------------------------------------------------------------
(* Bounds of the model. *)

MaxRecs  == 2   \* records in the list one strategy returns
MaxDedup == 4   \* records in a list given to deduplicate_recipients
MaxClean == 5   \* characters in a string given to clean_name
MaxConv  == 3   \* records in a list given to convert_to_investec_format
MaxFrags == 3   \* text fragments on a page given to an assembler
MaxRows  == 2   \* rows in a table given to parse_fnb_table
MaxLines == 3   \* lines in an OCR text built from OcrLines

----------------------------------------------------------------------------
(* Characters and the regular expressions of the source. *)

Digits  == {"0", "1", "2", "3", "4", "5", "6", "7", "8", "9"}
Letters == {"a", "b", "c", "d", "e", "f", "g", "h", "i", "j", "k", "l", "m",
            "n", "o", "p", "q", "r", "s", "t", "u", "v", "w", "x", "y", "z",
            "A", "B", "C", "D", "E", "F", "G", "H", "I", "J", "K", "L", "M",
            "N", "O", "P", "Q", "R", "S", "T", "U", "V", "W", "X", "Y", "Z"}
Whitespace == {" ", "\t", "\n", "\r"}
WordChars  == Digits \cup Letters \cup {"_"}

Min(a, b) == IF a < b THEN a ELSE b

Char(s, k) == SubSeq(s, k, k)

AllIn(s, set) == \A k \in 1..Len(s) : Char(s, k) \in set

\* str.strip()
RECURSIVE LStrip(_)
LStrip(s) == IF Len(s) > 0 /\ Char(s, 1) \in Whitespace
             THEN LStrip(SubSeq(s, 2, Len(s))) ELSE s
RECURSIVE RStrip(_)
RStrip(s) == IF Len(s) > 0 /\ Char(s, Len(s)) \in Whitespace
             THEN RStrip(SubSeq(s, 1, Len(s) - 1)) ELSE s
Strip(s) == RStrip(LStrip(s))

\* re.sub(r'\s+', ' ', s)
RECURSIVE CollapseSpaces(_)
CollapseSpaces(s) ==
    IF Len(s) = 0 THEN ""
    ELSE IF Char(s, 1) \in Whitespace
         THEN " " \o CollapseSpaces(LStrip(s))
         ELSE Char(s, 1) \o CollapseSpaces(SubSeq(s, 2, Len(s)))

\* the number of digits that end s
RECURSIVE TrailingDigits(_)
TrailingDigits(s) == IF Len(s) > 0 /\ Char(s, Len(s)) \in Digits
                     THEN 1 + TrailingDigits(SubSeq(s, 1, Len(s) - 1)) ELSE 0
\* the number of whitespace characters that end s
RECURSIVE TrailingSpaces(_)
TrailingSpaces(s) == IF Len(s) > 0 /\ Char(s, Len(s)) \in Whitespace
                     THEN 1 + TrailingSpaces(SubSeq(s, 1, Len(s) - 1)) ELSE 0

\* re.sub(r'\s+\d+$', '', s): one whitespace run followed by one digit run at the
\* end of s is removed.  '$' also matches before a final newline, which a stripped
\* string never has.
StripTrailingNumber(s) ==
    LET d    == TrailingDigits(s)
        head == SubSeq(s, 1, Len(s) - d)
        w    == TrailingSpaces(head)
    IN  IF d > 0 /\ w > 0 THEN SubSeq(head, 1, Len(head) - w) ELSE s

clean_name(name) == StripTrailingNumber(Strip(CollapseSpaces(name)))

----------------------------------------------------------------------------
(* deduplicate_recipients and convert_to_investec_format. *)

RECURSIVE DedupFrom(_, _, _)
DedupFrom(rs, seen_accounts, unique_recipients) ==
    IF rs = << >> THEN unique_recipients
    ELSE LET recipient == Head(rs)
             account   == recipient.account
         IN  IF account \notin seen_accounts
             THEN DedupFrom(Tail(rs), seen_accounts \cup {account},
                            Append(unique_recipients, recipient))
             ELSE DedupFrom(Tail(rs), seen_accounts, unique_recipients)

\* a deduplication that keeps the last record of an account, not the first
RECURSIVE DedupKeepLast(_)
DedupKeepLast(rs) ==
    IF rs = << >> THEN << >>
    ELSE IF \E j \in 2..Len(rs) : rs[j].account = Head(rs).account
         THEN DedupKeepLast(Tail(rs))
         ELSE << Head(rs) >> \o DedupKeepLast(Tail(rs))

deduplicate_recipients(rs) == DedupFrom(rs, {}, << >>)

FNB_BRANCH_CODE == "250655"

INVESTEC_HEADERS == << "Beneficiary Account Name",
                       "Beneficiary Bank",
                       "Beneficiary Bank Account Number",
                       "Beneficiary Branch Code",
                       "Beneficiary Reference",
                       "Statement Description",
                       "Beneficiary Name",
                       "Beneficiary Fax Number",
                       "Beneficiary Email Address",
                       "Beneficiary Cell Number" >>

FieldMaxLen == 20

\* a mapping that forgets to cut the field
NoTruncate(s) == s

\* s[:20]
Truncate(s) == SubSeq(s, 1, Min(FieldMaxLen, Len(s)))

\* recipient.get('reference', recipient['name'])
GetReference(recipient) ==
    IF "reference" \in DOMAIN recipient THEN recipient.reference ELSE recipient.name

InvestecRecord(recipient) ==
    ("Beneficiary Account Name" :> recipient.name)
    @@ ("Beneficiary Bank" :> "FNB")
    @@ ("Beneficiary Bank Account Number" :> recipient.account)
    @@ ("Beneficiary Branch Code" :> FNB_BRANCH_CODE)
    @@ ("Beneficiary Reference" :> Truncate(GetReference(recipient)))
    @@ ("Statement Description" :> Truncate(recipient.name))
    @@ ("Beneficiary Name" :> recipient.name)
    @@ ("Beneficiary Fax Number" :> "")
    @@ ("Beneficiary Email Address" :> "")
    @@ ("Beneficiary Cell Number" :> "")

convert_to_investec_format(rs) == [k \in 1..Len(rs) |-> InvestecRecord(rs[k])]

\* csv.DictWriter(csvfile, fieldnames=INVESTEC_HEADERS): the header row, then one
\* row per record with the values in header order
write_investec_csv(records) ==
    << INVESTEC_HEADERS >> \o
    [k \in 1..Len(records) |->
        [c \in 1..Len(INVESTEC_HEADERS) |-> records[k][INVESTEC_HEADERS[c]]]]

----------------------------------------------------------------------------
(* extract_recipients and main. *)

\* the values of -m/--method that argparse accepts (choices=...)
MethodChoices == {"auto", "pdfplumber", "pymupdf", "ocr"}
\* the values of -m/--method given on the command line
Methods == MethodChoices \cup {"tabula"}

R1 == [name |-> "Jane Smith", account |-> "87654321", reference |-> "Rent"]
R2 == [name |-> "Bob Jones", account |-> "11223344", reference |-> "Bob Jones"]
R3 == [name |-> "J Smith", account |-> "87654321", reference |-> "Gift"]
R4 == [name |-> "P Holroyd T/a Tiny Twisters", account |-> "62001234567",
       reference |-> "Tiny Twisters school fees"]

RECURSIVE SeqsUpTo(_, _)
SeqsUpTo(S, n) ==
    IF n = 0 THEN {<< >>}
    ELSE LET shorter == SeqsUpTo(S, n - 1)
         IN  shorter \cup {Append(q, e) : q \in shorter, e \in S}

\* what one strategy can return for some PDF
StrategyLists == SeqsUpTo({R1, R2}, MaxRecs)

Raises == [raised |-> TRUE, value |-> << >>]
Returns(list) == [raised |-> FALSE, value |-> list]

\* extract_with_pdfplumber, extract_with_pymupdf, extract_with_ocr: each raises
\* ImportError when its library is missing; otherwise it reads the PDF, and raises
\* or returns a list
LibraryPresent(name) ==
    CASE name = "pdfplumber" -> pdfplumber
      [] name = "pymupdf"    -> fitz
      [] name = "ocr"        -> pytesseract /\ fitz
Outcomes(name) ==
    IF LibraryPresent(name)
    THEN {Raises} \cup {Returns(list) : list \in StrategyLists}
    ELSE {Raises}

\* a selector that prefers the coordinate-based strategy
MethodsCoordinateFirst(m, has_fitz, has_pdfplumber, has_pytesseract) ==
    IF m = "auto"
    THEN (IF has_pdfplumber THEN << "pdfplumber" >> ELSE << >>)
         \o (IF has_fitz THEN << "pymupdf" >> ELSE << >>)
         \o (IF has_pytesseract /\ has_fitz THEN << "ocr" >> ELSE << >>)
    ELSE << m >>

\* lines 552-568: methods_to_try for a known method
MethodsToTry(m, has_fitz, has_pdfplumber, has_pytesseract) ==
    IF m = "auto"
    THEN (IF has_fitz THEN << "pymupdf" >> ELSE << >>)
         \o (IF has_pdfplumber THEN << "pdfplumber" >> ELSE << >>)
         \o (IF has_pytesseract /\ has_fitz THEN << "ocr" >> ELSE << >>)
    ELSE << m >>

\* a loop that never breaks
NeverBreaks(list) == FALSE

\* line 583: if recipients: ... break
LoopBreaks(list) == list # << >>

\* a main that goes on with an empty list
NeverAborts(list) == FALSE

\* line 652: if not recipients: ... sys.exit(1)
MainAborts(list) == list = << >>

InitMain ==
    /\ pc = "main"
    /\ method \in Methods
    /\ pdf_exists \in BOOLEAN
    /\ fitz \in BOOLEAN
    /\ pdfplumber \in BOOLEAN
    /\ pytesseract \in BOOLEAN
    /\ methods_to_try = << >>
    /\ mi = 1
    /\ recipients = << >>
    /\ calls = << >>
    /\ investec_records = << >>
    /\ csvfile = << >>
    /\ exit_code = -1
    /\ exception = "none"
    /\ lines = << >> /\ i = 1
    /\ current_name = "" /\ current_account = "" /\ current_reference = ""
    /\ arg = << >> /\ result = << >>

\* main, lines 637-650: parse_args (exit status 2 for a method outside the
\* choices), the check that the file exists, and the call of extract_recipients
MainStart ==
    /\ pc = "main"
    /\ IF method \notin MethodChoices
       THEN pc' = "exit" /\ exit_code' = 2
       ELSE IF ~pdf_exists
            THEN pc' = "exit" /\ exit_code' = 1
            ELSE pc' = "extract_recipients" /\ exit_code' = exit_code
    /\ UNCHANGED << method, pdf_exists, fitz, pdfplumber, pytesseract, methods_to_try,
                    mi, recipients, calls, investec_records, csvfile, exception >>
    /\ UNCHANGED ocrVars /\ UNCHANGED fnVars

\* extract_recipients, lines 552-578: build methods_to_try; ValueError for an
\* unknown method, RuntimeError when the list is empty.  Neither is caught by
\* main: the process ends with a traceback and exit status 1.
SelectMethods ==
    /\ pc = "extract_recipients"
    /\ IF method \notin MethodChoices
       THEN /\ exception' = "ValueError"
            /\ pc' = "exit" /\ exit_code' = 1
            /\ UNCHANGED methods_to_try
       ELSE LET chosen == MethodsToTry(method, fitz, pdfplumber, pytesseract)
            IN  /\ methods_to_try' = chosen
                /\ IF chosen = << >>
                   THEN exception' = "RuntimeError" /\ pc' = "exit" /\ exit_code' = 1
                   ELSE exception' = exception /\ pc' = "loop" /\ exit_code' = exit_code
    /\ recipients' = << >>
    /\ mi' = 1
    /\ UNCHANGED << method, pdf_exists, fitz, pdfplumber, pytesseract, calls,
                    investec_records, csvfile >>
    /\ UNCHANGED ocrVars /\ UNCHANGED fnVars

\* extract_recipients, lines 579-592: one turn of the loop.  The strategy is called;
\* an exception is caught and the loop continues; a returned list is assigned to
\* recipients, and a non-empty one breaks the loop.  After the last strategy, or at
\* the break, the function returns recipients.
TryMethod ==
    /\ pc = "loop"
    /\ mi <= Len(methods_to_try)
    /\ \E outcome \in Outcomes(methods_to_try[mi]) :
          /\ calls' = Append(calls, [name |-> methods_to_try[mi], outcome |-> outcome])
          /\ recipients' = IF outcome.raised THEN recipients ELSE outcome.value
          /\ IF ~outcome.raised /\ LoopBreaks(outcome.value)
             THEN pc' = "returned" /\ mi' = mi
             ELSE /\ mi' = mi + 1
                  /\ pc' = IF mi + 1 > Len(methods_to_try) THEN "returned" ELSE "loop"
    /\ UNCHANGED << method, pdf_exists, fitz, pdfplumber, pytesseract, methods_to_try,
                    investec_records, csvfile, exit_code, exception >>
    /\ UNCHANGED ocrVars /\ UNCHANGED fnVars

\* main, lines 652-655
MainCheck ==
    /\ pc = "returned"
    /\ IF MainAborts(recipients)
       THEN pc' = "exit" /\ exit_code' = 1
       ELSE pc' = "deduplicate" /\ exit_code' = exit_code
    /\ UNCHANGED << method, pdf_exists, fitz, pdfplumber, pytesseract, methods_to_try,
                    mi, recipients, calls, investec_records, csvfile, exception >>
    /\ UNCHANGED ocrVars /\ UNCHANGED fnVars

\* main, lines 658-661
MainDeduplicate ==
    /\ pc = "deduplicate"
    /\ recipients' = deduplicate_recipients(recipients)
    /\ pc' = "convert"
    /\ UNCHANGED << method, pdf_exists, fitz, pdfplumber, pytesseract, methods_to_try,
                    mi, calls, investec_records, csvfile, exit_code, exception >>
    /\ UNCHANGED ocrVars /\ UNCHANGED fnVars

\* main, line 664
MainConvert ==
    /\ pc = "convert"
    /\ investec_records' = convert_to_investec_format(recipients)
    /\ pc' = "write"
    /\ UNCHANGED << method, pdf_exists, fitz, pdfplumber, pytesseract, methods_to_try,
                    mi, recipients, calls, csvfile, exit_code, exception >>
    /\ UNCHANGED ocrVars /\ UNCHANGED fnVars

\* main, lines 667-673: the CSV is written and main returns
MainWrite ==
    /\ pc = "write"
    /\ csvfile' = write_investec_csv(investec_records)
    /\ pc' = "done"
    /\ exit_code' = 0
    /\ UNCHANGED << method, pdf_exists, fitz, pdfplumber, pytesseract, methods_to_try,
                    mi, recipients, calls, investec_records, exception >>
    /\ UNCHANGED ocrVars /\ UNCHANGED fnVars

NextMain == MainStart \/ SelectMethods \/ TryMethod \/ MainCheck
            \/ MainDeduplicate \/ MainConvert \/ MainWrite

Spec == InitMain /\ [][NextMain]_vars

----------------------------------------------------------------------------
(* Claims about the strategy selector and main, under Spec. *)

\* a call that raised or returned an empty list
Failed(call) == call.outcome.raised \/ call.outcome.value = << >>

LastCall == calls[Len(calls)]

AllLibraries == fitz /\ pdfplumber /\ pytesseract

\* every strategy of methods_to_try was called, and each raised or returned empty
AllFailed ==
    /\ calls # << >>
    /\ Len(calls) = Len(methods_to_try)
    /\ \A j \in 1..Len(calls) : Failed(calls[j])

\* C1: the strategies are called one at a time in the order of methods_to_try; a
\* call is followed by another only if it raised or returned an empty list; when
\* extract_recipients returns, its result is exactly the list of the first call
\* that returned a non-empty list (that call is the last one made), or the empty
\* list when every strategy was called and none did; and no exception leaves
\* extract_recipients once a strategy has been called.
C1_FallbackInOrder ==
    /\ Len(calls) <= Len(methods_to_try)
    /\ \A j \in 1..Len(calls) : calls[j].name = methods_to_try[j]
    /\ \A j \in 1..(Len(calls) - 1) : Failed(calls[j])
    /\ calls # << >> => exception = "none"
    /\ pc = "loop" => (\A j \in 1..Len(calls) : Failed(calls[j])) /\ mi = Len(calls) + 1
    /\ pc = "returned" =>
          /\ calls # << >>
          /\ IF Failed(LastCall)
             THEN Len(calls) = Len(methods_to_try) /\ recipients = << >>
             ELSE recipients = LastCall.outcome.value

\* C1 witness: the first strategy raised, the second returned two records, and
\* extract_recipients returned the second strategy's list.
C1_Witness ==
    /\ pc = "returned"
    /\ Len(calls) = 2
    /\ Len(methods_to_try) = 3
    /\ calls[1].outcome.raised
    /\ ~calls[2].outcome.raised
    /\ Len(calls[2].outcome.value) = 2
    /\ recipients = calls[2].outcome.value

\* some call before the j-th was of the named strategy and raised or returned empty
FailedBefore(name, j) ==
    \E k \in 1..(j - 1) : calls[k].name = name /\ Failed(calls[k])

\* C2 as stated: in automatic mode with all libraries, pdfplumber (coordinate-based)
\* is tried first, then pymupdf (block-based), then ocr; with an explicit method
\* only that strategy is called.
C2_CoordinateFirst ==
    /\ (method = "auto" /\ AllLibraries) =>
          \A j \in 1..Len(calls) :
             /\ calls[j].name = "pymupdf" => FailedBefore("pdfplumber", j)
             /\ calls[j].name = "ocr" =>
                   FailedBefore("pdfplumber", j) /\ FailedBefore("pymupdf", j)
    /\ method \in MethodChoices \ {"auto"} =>
          \A j \in 1..Len(calls) : calls[j].name = method

\* C2 amended: in automatic mode with all libraries, pymupdf (block-based) is tried
\* first, then pdfplumber (coordinate-based), then ocr: pdfplumber is never called
\* before pymupdf has raised or returned empty, and ocr never before both have;
\* with an explicit method only that strategy is called, at most once.
C2_BlockFirst ==
    /\ (method = "auto" /\ AllLibraries) =>
          \A j \in 1..Len(calls) :
             /\ calls[j].name = "pdfplumber" => FailedBefore("pymupdf", j)
             /\ calls[j].name = "ocr" =>
                   FailedBefore("pymupdf", j) /\ FailedBefore("pdfplumber", j)
    /\ method \in MethodChoices \ {"auto"} =>
          /\ Len(calls) <= 1
          /\ \A j \in 1..Len(calls) : calls[j].name = method

\* C2 witness: automatic mode, all libraries, all three strategies were called and
\* ocr was the third.
C2_Witness ==
    /\ method = "auto" /\ AllLibraries
    /\ Len(calls) = 3
    /\ calls[1].name = "pymupdf" /\ calls[2].name = "pdfplumber" /\ calls[3].name = "ocr"

\* C3: when every attempted strategy raised or returned empty, main ends with exit
\* status 1 and never reaches deduplication, the output mapping or the CSV write;
\* those stages are reached only after a call that returned a non-empty list, and
\* exit status 0 comes with at least one record written; in automatic mode with
\* no strategy available, RuntimeError is raised before any strategy is called.
C3_TerminalFailure ==
    /\ AllFailed =>
          /\ pc \in {"returned", "exit"}
          /\ pc = "exit" => exit_code = 1
          /\ pc = "returned" => exit_code = -1 /\ recipients = << >>
          /\ investec_records = << >> /\ csvfile = << >>
    /\ pc \in {"deduplicate", "convert", "write", "done"} =>
          calls # << >> /\ ~Failed(LastCall) /\ recipients # << >>
    /\ exit_code = 0 => pc = "done" /\ Len(csvfile) >= 2
    /\ (method = "auto" /\ ~fitz /\ ~pdfplumber /\ pc \notin {"main", "extract_recipients"}
        /\ pdf_exists) =>
          exception = "RuntimeError" /\ calls = << >> /\ pc = "exit" /\ exit_code = 1

\* C3 witness: three strategies were tried, one raised and one returned empty, none
\* returned records, and main has exited with status 1.
C3_Witness ==
    /\ AllFailed
    /\ Len(calls) = 3
    /\ \E j \in 1..3 : calls[j].outcome.raised
    /\ \E j \in 1..3 : ~calls[j].outcome.raised
    /\ pc = "exit" /\ exit_code = 1

----------------------------------------------------------------------------
(* The pure functions, each applied to inputs drawn from a bounded set. *)

\* the variables of main and of parse_fnb_text, while neither runs
IdleMain ==
    /\ method = "auto" /\ pdf_exists = TRUE
    /\ fitz = TRUE /\ pdfplumber = TRUE /\ pytesseract = TRUE
    /\ methods_to_try = << >> /\ mi = 1 /\ calls = << >>
    /\ investec_records = << >> /\ csvfile = << >>
    /\ exit_code = -1 /\ exception = "none"
IdleOcr ==
    /\ lines = << >> /\ i = 1
    /\ current_name = "" /\ current_account = "" /\ current_reference = ""

RECURSIVE StringsUpTo(_, _)
StringsUpTo(alphabet, n) ==
    IF n = 0 THEN {""}
    ELSE LET shorter == StringsUpTo(alphabet, n - 1)
         IN  shorter \cup {q \o c : q \in shorter, c \in alphabet}

\* the strings given to clean_name: a letter, a digit and a blank in every order
CleanInputs == StringsUpTo({"a", "1", " "}, MaxClean)

InitClean ==
    /\ pc = "clean_name"
    /\ arg \in CleanInputs
    /\ result = ""
    /\ recipients = << >>
    /\ IdleMain /\ IdleOcr

\* name = clean_name(arg)
CleanName ==
    /\ pc = "clean_name"
    /\ result' = clean_name(arg)
    /\ pc' = "cleaned"
    /\ UNCHANGED << arg, recipients >>
    /\ UNCHANGED mainVars /\ UNCHANGED ocrVars

\* clean_name applied to its own result
CleanNameAgain ==
    /\ pc = "cleaned"
    /\ arg' = result
    /\ result' = clean_name(result)
    /\ pc' = "cleaned_twice"
    /\ UNCHANGED recipients
    /\ UNCHANGED mainVars /\ UNCHANGED ocrVars

NextClean == CleanName \/ CleanNameAgain

SpecClean == InitClean /\ [][NextClean]_vars

\* C6: clean_name is idempotent: applied to its own result, it returns it unchanged.
C6_Idempotent == pc = "cleaned_twice" => result = arg

\* the records given to deduplicate_recipients: R1 and R3 share an account
DedupInputs == SeqsUpTo({R1, R2, R3}, MaxDedup)

InitDedup ==
    /\ pc = "deduplicate_recipients"
    /\ arg \in DedupInputs
    /\ result = << >>
    /\ recipients = << >>
    /\ IdleMain /\ IdleOcr

Deduplicate ==
    /\ pc = "deduplicate_recipients"
    /\ result' = deduplicate_recipients(arg)
    /\ pc' = "deduplicated"
    /\ UNCHANGED << arg, recipients >>
    /\ UNCHANGED mainVars /\ UNCHANGED ocrVars

SpecDedup == InitDedup /\ [][Deduplicate]_vars

\* the places of arg that hold the first record of their account
FirstOccurrences ==
    {k \in 1..Len(arg) : \A j \in 1..(k - 1) : arg[j].account # arg[k].account}

\* C5: the list deduplicate_recipients returns has pairwise distinct accounts, is a
\* subsequence of its input, and holds exactly the first record of every account of
\* the input.
C5_DedupFirstWins ==
    pc = "deduplicated" =>
       /\ \A m, n \in 1..Len(result) : m # n => result[m].account # result[n].account
       /\ Len(result) = Cardinality(FirstOccurrences)
       /\ \E f \in [1..Len(result) -> 1..Len(arg)] :
             /\ \A m, n \in 1..Len(result) : m < n => f[m] < f[n]
             /\ \A m \in 1..Len(result) : f[m] \in FirstOccurrences /\ result[m] = arg[f[m]]
       /\ \A k \in FirstOccurrences : \E m \in 1..Len(result) : result[m] = arg[k]

\* C5 witness: an account occurs twice in the input, with another record between
\* the two, in different records; one record was dropped and the first was kept.
C5_Witness ==
    /\ pc = "deduplicated"
    /\ \E j, k \in 1..Len(arg) :
          /\ j + 1 < k
          /\ arg[j].account = arg[k].account /\ arg[j] # arg[k]
          /\ j \in FirstOccurrences
          /\ \E m \in 1..Len(result) : result[m] = arg[j]
    /\ Len(result) < Len(arg)
    /\ Len(result) >= 2

\* records with names and references of 20, 21 and more characters, and one without
\* a reference key
R5 == [name |-> "Household Maintenanc", account |-> "1234567890",
       reference |-> "Household Maintenance"]
R6 == [name |-> "Tiny Twisters Nursery", account |-> "12345678"]

ConvertInputs == SeqsUpTo({R1, R4, R5, R6}, MaxConv)

InitConvert ==
    /\ pc = "convert_to_investec_format"
    /\ arg \in ConvertInputs
    /\ result = << >>
    /\ recipients = << >>
    /\ IdleMain /\ IdleOcr

Convert ==
    /\ pc = "convert_to_investec_format"
    /\ result' = convert_to_investec_format(arg)
    /\ pc' = "converted"
    /\ UNCHANGED << arg, recipients >>
    /\ UNCHANGED mainVars /\ UNCHANGED ocrVars

SpecConvert == InitConvert /\ [][Convert]_vars

\* p is the first 20 characters of s (all of s when it is shorter)
IsFirst20(p, s) ==
    /\ Len(p) = (IF Len(s) < 20 THEN Len(s) ELSE 20)
    /\ p = SubSeq(s, 1, Len(p))

\* C10: convert_to_investec_format maps the k-th input record to the k-th output
\* record; the output record has the 10 schema fields, Beneficiary Reference and
\* Statement Description are the first 20 characters of the reference and of the
\* name (length at most 20), the branch code is "250655", the bank "FNB", and the
\* fax, email and cell fields are empty.
C10_SchemaInvariant ==
    pc = "converted" =>
       /\ Len(result) = Len(arg)
       /\ \A k \in 1..Len(result) :
             LET out == result[k]
                 in  == arg[k]
             IN  /\ DOMAIN out = {INVESTEC_HEADERS[c] : c \in 1..Len(INVESTEC_HEADERS)}
                 /\ Cardinality(DOMAIN out) = 10
                 /\ out["Beneficiary Account Name"] = in.name
                 /\ out["Beneficiary Name"] = in.name
                 /\ out["Beneficiary Bank Account Number"] = in.account
                 /\ out["Beneficiary Bank"] = "FNB"
                 /\ out["Beneficiary Branch Code"] = "250655"
                 /\ IsFirst20(out["Beneficiary Reference"],
                              IF "reference" \in DOMAIN in THEN in.reference ELSE in.name)
                 /\ IsFirst20(out["Statement Description"], in.name)
                 /\ Len(out["Beneficiary Reference"]) <= 20
                 /\ Len(out["Statement Description"]) <= 20
                 /\ out["Beneficiary Fax Number"] = ""
                 /\ out["Beneficiary Email Address"] = ""
                 /\ out["Beneficiary Cell Number"] = ""

\* C10 witness: a record whose name and reference are longer than 20 characters
\* was mapped, after another record, and both fields were cut to 20.
C10_Witness ==
    /\ pc = "converted"
    /\ Len(arg) >= 2
    /\ "reference" \in DOMAIN arg[2]
    /\ Len(arg[2].name) > 20 /\ Len(arg[2].reference) > 20
    /\ Len(result[2]["Beneficiary Reference"]) = 20
    /\ Len(result[2]["Statement Description"]) = 20
    /\ result[2]["Beneficiary Reference"] # arg[2].reference

----------------------------------------------------------------------------
(* The content classifiers: the regular expressions and word lists of the parsers. *)

AccountMinLen == 8
AccountMaxLen == 11

\* account_pattern = re.compile(r'^(\d{8,11})$'); account_pattern.match(text)
IsAccountText(text) ==
    /\ Len(text) >= AccountMinLen /\ Len(text) <= AccountMaxLen
    /\ AllIn(text, Digits)

\* text.replace(' ', '')
RECURSIVE RemoveBlanks(_)
RemoveBlanks(s) ==
    IF Len(s) = 0 THEN ""
    ELSE (IF Char(s, 1) = " " THEN "" ELSE Char(s, 1)) \o RemoveBlanks(SubSeq(s, 2, Len(s)))

\* re.match(r'^[\d,]+\.\d{2}$', text.replace(' ', ''))
IsMoney(text) ==
    LET t == RemoveBlanks(text)
        n == Len(t)
    IN  /\ n >= 4
        /\ Char(t, n) \in Digits /\ Char(t, n - 1) \in Digits
        /\ Char(t, n - 2) = "."
        /\ AllIn(SubSeq(t, 1, n - 3), Digits \cup {","})

\* re.match(r'^\d{2}$', text)
IsDay(text) == Len(text) = 2 /\ AllIn(text, Digits)

\* re.match(r'^20\d{2}$', text)
IsYear(text) == Len(text) = 4 /\ SubSeq(text, 1, 2) = "20" /\ AllIn(text, Digits)

Months == {"Jan", "Feb", "Mar", "Apr", "May", "Jun",
           "Jul", "Aug", "Sep", "Oct", "Nov", "Dec"}

\* s contains sub ('sub in s')
Contains(s, sub) ==
    \E k \in 1..(Len(s) - Len(sub) + 1) : SubSeq(s, k, k + Len(sub) - 1) = sub

\* re.search(r'[A-Za-z]{2,}', s)
HasLetterRun(s) ==
    \E k \in 1..(Len(s) - 1) : Char(s, k) \in Letters /\ Char(s, k + 1) \in Letters

\* re.match(r'^\d+$', s)
IsAllDigits(s) == Len(s) > 0 /\ AllIn(s, Digits)

\* the length of the run of digits that starts at place k of s
RECURSIVE DigitRun(_, _)
DigitRun(s, k) == IF k <= Len(s) /\ Char(s, k) \in Digits THEN 1 + DigitRun(s, k + 1) ELSE 0

\* account_pattern = re.compile(r'\b(\d{8,11})\b'): a match starts at k when a run
\* of 8 to 11 digits starts there with no word character before it or after it
AccountMatchAt(s, k) ==
    LET n == DigitRun(s, k)
    IN  /\ n >= AccountMinLen /\ n <= AccountMaxLen
        /\ (k = 1 \/ Char(s, k - 1) \notin WordChars)
        /\ (k + n > Len(s) \/ Char(s, k + n) \notin WordChars)

\* account_pattern.search(s): the leftmost match; start 0 when there is none
SearchAccount(s) ==
    LET starts == {k \in 1..Len(s) : AccountMatchAt(s, k)}
    IN  IF starts = {} THEN [start |-> 0, group |-> ""]
        ELSE LET k == CHOOSE m \in starts : \A o \in starts : m <= o
             IN  [start |-> k, group |-> SubSeq(s, k, k + DigitRun(s, k) - 1)]

\* re.match(r'^\d{2}\s+\w{3}\s+\d{4}$', s): two digits, blanks, three word
\* characters, blanks, four digits
IsDate(s) ==
    /\ Len(s) >= 11
    /\ AllIn(SubSeq(s, 1, 2), Digits)
    /\ AllIn(SubSeq(s, Len(s) - 3, Len(s)), Digits)
    /\ \E a \in 3..(Len(s) - 8) :
          /\ AllIn(SubSeq(s, 3, a), Whitespace)
          /\ AllIn(SubSeq(s, a + 1, a + 3), WordChars)
          /\ AllIn(SubSeq(s, a + 4, Len(s) - 4), Whitespace)

\* sep.join(texts)
RECURSIVE Join(_, _)
Join(texts, sep) ==
    IF texts = << >> THEN ""
    ELSE IF Len(texts) = 1 THEN texts[1]
    ELSE texts[1] \o sep \o Join(Tail(texts), sep)

\* s.split(sep) for a one-character sep
RECURSIVE SplitFrom(_, _, _)
SplitFrom(s, sep, piece) ==
    IF Len(s) = 0 THEN << piece >>
    ELSE IF Char(s, 1) = sep
         THEN << piece >> \o SplitFrom(SubSeq(s, 2, Len(s)), sep, "")
         ELSE SplitFrom(SubSeq(s, 2, Len(s)), sep, piece \o Char(s, 1))
Split(s, sep) == SplitFrom(s, sep, "")

\* s.replace(sub, '') for a non-empty sub
RECURSIVE Remove(_, _)
Remove(s, sub) ==
    IF Len(s) < Len(sub) THEN s
    ELSE IF SubSeq(s, 1, Len(sub)) = sub
         THEN Remove(SubSeq(s, Len(sub) + 1, Len(s)), sub)
         ELSE Char(s, 1) \o Remove(SubSeq(s, 2, Len(s)), sub)

\* round(n / d) for integers n >= 0 and d > 0: Python rounds a half to the even side
Round(n, d) ==
    LET q == n \div d
        r == n % d
    IN  IF 2 * r < d THEN q
        ELSE IF 2 * r > d THEN q + 1
        ELSE IF q % 2 = 0 THEN q ELSE q + 1

\* <<a1, a2>> <= <<b1, b2>> in the order of Python tuples
PairLeq(a, b) == a[1] < b[1] \/ (a[1] = b[1] /\ a[2] <= b[2])

\* sorted(items, key=...): a stable sort; keys[k] is the key of items[k]
RECURSIVE SortByKey(_, _)
SortByKey(items, keys) ==
    IF items = << >> THEN << >>
    ELSE LET n     == Len(items)
             front == SortByKey(SubSeq(items, 1, n - 1), SubSeq(keys, 1, n - 1))
             fkeys == SortByKey(SubSeq(keys, 1, n - 1), SubSeq(keys, 1, n - 1))
             c     == Cardinality({k \in 1..(n - 1) : PairLeq(fkeys[k], keys[n])})
         IN  SubSeq(front, 1, c) \o << items[n] >> \o SubSeq(front, c + 1, n - 1)

Map(items, F(_)) == [k \in 1..Len(items) |-> F(items[k])]

----------------------------------------------------------------------------
(* The record assemblers: parse_pdfplumber_words and parse_pymupdf_blocks_v2. *)

NameWindow       == 35    \* a name is at most 35 units above its account
NameColumnMax    == 130   \* the name column: x < 130
WordRefColumnMin == 400   \* parse_pdfplumber_words: the reference column, x > 400
WordPosGrid      == 5     \* parse_pdfplumber_words: pos_key rounds y / 5 and x / 5
SpanRefColumnMin == 430   \* parse_pymupdf_blocks_v2: the reference column, x > 430
SpanRefWindow    == 40    \* parse_pymupdf_blocks_v2: a reference is at most 40 above
SpanYGrid        == 2     \* parse_pymupdf_blocks_v2: y_key rounds y to 2 units

\* 0 < acc_y - y <= window
Above(acc_y, y, window) == 0 < acc_y - y /\ acc_y - y <= window

\* a record appended twice for one anchor
EmitRecordTwice(name, account, reference) ==
    IF name # "" /\ Len(name) > 1
    THEN << [name |-> name, account |-> account, reference |-> reference],
            [name |-> name, account |-> account, reference |-> reference] >>
    ELSE << >>

\* a record whose reference field is filled from the account
EmitRecordAccountAsReference(name, account, reference) ==
    IF name # "" /\ Len(name) > 1
    THEN << [name |-> name, account |-> account, reference |-> account] >>
    ELSE << >>

\* lines 157-162 and 335-340: if name and len(name) > 1: recipients.append({...})
EmitRecord(name, account, reference) ==
    IF name # "" /\ Len(name) > 1
    THEN << [name |-> name, account |-> account, reference |-> reference] >>
    ELSE << >>

\* lines 117-127: the words parse_pdfplumber_words leaves out of names and references
WordExcluded(text) ==
    \/ IsMoney(text)
    \/ IsDay(text)
    \/ text \in Months
    \/ IsYear(text)
    \/ text \in {"0.00", "Inactive", "Recipient"}

\* lines 147-153: the texts of the words whose pos_key was not seen before
RECURSIVE UniqueRefWords(_, _)
UniqueRefWords(ref_words, seen_positions) ==
    IF ref_words = << >> THEN << >>
    ELSE LET w       == Head(ref_words)
             pos_key == << Round(w.y, WordPosGrid), Round(w.x, WordPosGrid) >>
         IN  IF pos_key \notin seen_positions
             THEN << w.text >> \o UniqueRefWords(Tail(ref_words), seen_positions \cup {pos_key})
             ELSE UniqueRefWords(Tail(ref_words), seen_positions)

\* lines 99-162: the turn of the loop for one account position
WordsRecord(acc_info, words_sorted) ==
    LET account == acc_info.account
        acc_y   == acc_info.y
        Kept(word) ==
            LET text == Strip(word.text)
            IN  /\ text # "" /\ text # account
                /\ Above(acc_y, word.top, NameWindow)
                /\ ~WordExcluded(text)
        AsItem(word) == [text |-> Strip(word.text), x |-> word.x0, y |-> word.top]
        KeyOf(w) == << w.y, w.x >>
        names == Map(SelectSeq(words_sorted,
                               LAMBDA word : Kept(word) /\ word.x0 < NameColumnMax), AsItem)
        refs  == Map(SelectSeq(words_sorted,
                               LAMBDA word : /\ Kept(word)
                                             /\ ~(word.x0 < NameColumnMax)
                                             /\ word.x0 > WordRefColumnMin), AsItem)
        name_words == SortByKey(names, Map(names, KeyOf))
        ref_words  == SortByKey(refs, Map(refs, KeyOf))
        name == clean_name(Join(Map(name_words, LAMBDA w : w.text), " "))
        unique_ref_words == UniqueRefWords(ref_words, {})
        reference == IF ref_words # << >> /\ unique_ref_words # << >>
                     THEN Join(unique_ref_words, " ") ELSE name
    IN  IF name_words # << >> THEN EmitRecord(name, account, reference) ELSE << >>

\* lines 83-94: the words in (top, x0) order, and the account numbers among them
SortWords(words) == SortByKey(words, Map(words, LAMBDA w : << w.top, w.x0 >>))
AccountPositions(words_sorted) ==
    Map(SelectSeq(words_sorted, LAMBDA word : IsAccountText(Strip(word.text))),
        LAMBDA word : [account |-> Strip(word.text), x |-> word.x0, y |-> word.top])

RECURSIVE Concat(_)
Concat(lists) == IF lists = << >> THEN << >> ELSE Head(lists) \o Concat(Tail(lists))

parse_pdfplumber_words(words) ==
    LET words_sorted == SortWords(words)
    IN  Concat(Map(AccountPositions(words_sorted),
                   LAMBDA acc_info : WordsRecord(acc_info, words_sorted)))

\* lines 256-271: the spans of the blocks that have lines, with stripped, non-empty text
BlockSpans(block, block_idx) ==
    IF "lines" \notin DOMAIN block THEN << >>
    ELSE LET spans == Concat(Map(block.lines, LAMBDA line : line.spans))
             kept  == SelectSeq(spans, LAMBDA span : Strip(span.text) # "")
         IN  Map(kept, LAMBDA span : [text |-> Strip(span.text),
                                      x |-> span.bbox[1], y |-> span.bbox[2],
                                      block_idx |-> block_idx - 1,
                                      block_x |-> block.bbox[1]])
AllSpans(blocks) == Concat([k \in 1..Len(blocks) |-> BlockSpans(blocks[k], k)])

\* lines 281-287: the spans that make the name of the account at acc_y
SpanInName(s, acc_y) ==
    /\ s.x < NameColumnMax
    /\ Above(acc_y, s.y, NameWindow)
    /\ ~IsMoney(s.text)
    /\ s.text \notin {"0.00", "Inactive", "Recipient"}

\* lines 295-301: the spans that may make its reference
SpanInReference(s, acc_y) ==
    /\ s.x > SpanRefColumnMin
    /\ Above(acc_y, s.y, SpanRefWindow)
    /\ ~IsMoney(s.text)
    /\ Strip(s.text) \notin {"Their", "My", "Reference", "Amount"}

\* line 308: y_key = round(s["y"] / 2) * 2
YKey(s) == Round(s.y, SpanYGrid) * SpanYGrid

\* lines 318-327: for y_key in sorted(ref_by_y.keys()): the second span of the level
\* when it holds two or more, the only span otherwise
RECURSIVE MyRefSpans(_, _)
MyRefSpans(ref_spans, y_keys) ==
    IF y_keys = {} THEN << >>
    ELSE LET y_key      == CHOOSE y \in y_keys : \A o \in y_keys : y <= o
             spans_at_y == SelectSeq(ref_spans, LAMBDA s : YKey(s) = y_key)
         IN  << IF Len(spans_at_y) >= 2 THEN spans_at_y[2] ELSE spans_at_y[1] >>
             \o MyRefSpans(ref_spans, y_keys \ {y_key})

\* lines 276-340: the turn of the loop for one account span
SpansRecord(acc_span, all_spans) ==
    LET account == acc_span.text
        acc_y   == acc_span.y
        names   == SelectSeq(all_spans, LAMBDA s : SpanInName(s, acc_y))
        name_spans == SortByKey(names, Map(names, LAMBDA s : << s.y, s.x >>))
        name == clean_name(Join(Map(name_spans, LAMBDA s : s.text), " "))
        ref_spans == SelectSeq(all_spans, LAMBDA s : SpanInReference(s, acc_y))
        my_ref_spans ==
            MyRefSpans(ref_spans, {YKey(ref_spans[k]) : k \in 1..Len(ref_spans)})
        ref_text ==
            Strip(CollapseSpaces(Join(Map(my_ref_spans, LAMBDA s : Strip(s.text)), " ")))
        reference == IF my_ref_spans # << >> /\ ref_text # "" THEN ref_text ELSE name
    IN  EmitRecord(name, account, reference)

parse_pymupdf_blocks_v2(blocks) ==
    LET all_spans     == AllSpans(blocks)
        account_spans == SelectSeq(all_spans, LAMBDA s : IsAccountText(s.text))
    IN  Concat(Map(account_spans, LAMBDA acc_span : SpansRecord(acc_span, all_spans)))

----------------------------------------------------------------------------
(* The table-row parser: parse_fnb_table. *)

TableSkipKeywords ==
    {"Name", "Pay Amount", "Last Paid", "Amount", "Their Reference",
     "My Reference", "Please note", "Due to system", "Real-time"}

\* lines 197-217: the cells of a row, in order; st holds name and reference, "" for
\* None
RECURSIVE ScanCells(_, _, _)
ScanCells(row_data, account, st) ==
    IF row_data = << >> THEN st
    ELSE LET cell == Head(row_data)
             skipped == \/ cell = ""
                        \/ cell = account
                        \/ IsMoney(cell)
                        \/ IsDate(cell)
                        \/ Contains(cell, "Inactive")
             next == IF skipped THEN st
                     ELSE IF st.name = "" /\ HasLetterRun(cell)
                          THEN [st EXCEPT !.name = clean_name(cell)]
                     ELSE IF st.name # "" /\ st.reference = "" /\ HasLetterRun(cell)
                          THEN [st EXCEPT !.reference = cell]
                     ELSE st
         IN  ScanCells(Tail(row_data), account, next)

\* lines 172-224: one row; a None cell is modelled by "", which the code treats alike
TableRowRecord(row) ==
    LET row_data == Map(row, Strip)
        row_text == Join(row_data, " ")
        account_match == SearchAccount(row_text)
        account == account_match.group
        st == ScanCells(row_data, account, [name |-> "", reference |-> ""])
    IN  IF row = << >> \/ \A k \in 1..Len(row) : row[k] = "" THEN << >>
        ELSE IF \E keyword \in TableSkipKeywords : Contains(row_text, keyword) THEN << >>
        ELSE IF account_match.start = 0 THEN << >>
        ELSE IF st.name # "" /\ account # ""
             THEN << [name |-> st.name, account |-> account,
                      reference |-> IF st.reference # "" THEN st.reference ELSE st.name] >>
             ELSE << >>

parse_fnb_table(table) == Concat(Map(table, TableRowRecord))

----------------------------------------------------------------------------
(* The OCR line state machine: parse_fnb_text. *)

ShortLineLen == 20   \* line 429: len(line) < 20

skip_sections ==
    {"Pay recipient", "Due to system", "Please note", "Last Paid",
     "Pay Amount", "Their Reference", "My Reference", "Name",
     "Education", "Entertainment/sports", "Medical", "Motoring",
     "Personal Services", "Household Maintenance", "Family And Friends",
     "Not Categorised", "Real-time payments", "View the cut-off",
     "Inactive Recipient", "Amount"}

\* lines 409-422: the lines the loop passes over
OcrSkipped(line) ==
    \/ line = ""
    \/ \E skip \in skip_sections : Contains(line, skip)
    \/ IsMoney(line)
    \/ IsDate(line)

\* the pending record, with reference = current_reference or current_name
Pending(st) ==
    [name |-> st.current_name, account |-> st.current_account,
     reference |-> IF st.current_reference # "" THEN st.current_reference
                   ELSE st.current_name]

\* an account line that always takes the new account and never saves the
\* pending record
OcrAccountLineNoFlush(st, potential_account) ==
    [st EXCEPT !.current_account = potential_account]

\* lines 429-445: a line that is an account number, or short and holding one
OcrAccountLine(st, potential_account) ==
    IF st.current_name # "" /\ st.current_account = ""
    THEN [st EXCEPT !.current_account = potential_account]
    ELSE IF st.current_name # "" /\ st.current_account # ""
    THEN [recipients        |-> Append(st.recipients, Pending(st)),
          current_name      |-> "",
          current_account   |-> potential_account,
          current_reference |-> ""]
    ELSE [st EXCEPT !.current_account = potential_account]

\* lines 448-471: a line that looks like a name
OcrNameLine(st, line, account_match) ==
    LET flushed ==
            IF st.current_name # "" /\ st.current_account # ""
            THEN [st EXCEPT !.recipients = Append(st.recipients, Pending(st)),
                            !.current_reference = ""]
            ELSE st
        name_part == Strip(SubSeq(line, 1, account_match.start - 1))
    IN  IF account_match.start # 0
        THEN IF name_part # ""
             THEN [flushed EXCEPT !.current_name = clean_name(name_part),
                                  !.current_account = account_match.group]
             ELSE [flushed EXCEPT
                      !.current_name = clean_name(Strip(Remove(line, account_match.group))),
                      !.current_account = account_match.group]
        ELSE [flushed EXCEPT !.current_name = clean_name(line),
                             !.current_account = ""]

\* lines 407-473: one turn of the while loop, on lines[i]
OcrStep(st, raw_line) ==
    LET line          == Strip(raw_line)
        account_match == SearchAccount(line)
    IN  IF OcrSkipped(line) THEN st
        ELSE IF account_match.start # 0
                /\ (line = account_match.group \/ Len(line) < ShortLineLen)
        THEN OcrAccountLine(st, account_match.group)
        ELSE IF HasLetterRun(line) /\ ~IsAllDigits(line)
        THEN OcrNameLine(st, line, account_match)
        ELSE st

OcrState ==
    [recipients |-> recipients, current_name |-> current_name,
     current_account |-> current_account, current_reference |-> current_reference]

\* the text of end-to-end scenario 2
Scenario2Text == "Jane Smith\n87654321\nRent\nBob Jones\n11223344\n"

\* the lines OCR texts are built from: names, accounts, a reference, a blank line,
\* a header, an amount, a short line with a name and an account, and a long line
\* with a one-letter name before an account
OcrLines ==
    {"Jane Smith", "87654321", "Rent", "11223344", "", "Pay Amount", "1,234.56",
     "Bob Jones 11223344", "X 12345678 paid to landlord"}

OcrTexts == {Join(ls, "\n") : ls \in SeqsUpTo(OcrLines, MaxLines)} \cup {Scenario2Text}

InitOcr ==
    /\ pc = "parse_fnb_text"
    /\ arg \in OcrTexts
    /\ lines = Split(arg, "\n")
    /\ i = 1
    /\ current_name = "" /\ current_account = "" /\ current_reference = ""
    /\ recipients = << >>
    /\ result = << >>
    /\ IdleMain

\* lines 406-473
OcrLine ==
    /\ pc = "parse_fnb_text"
    /\ i <= Len(lines)
    /\ LET st == OcrStep(OcrState, lines[i])
       IN  /\ recipients' = st.recipients
           /\ current_name' = st.current_name
           /\ current_account' = st.current_account
           /\ current_reference' = st.current_reference
    /\ i' = i + 1
    /\ UNCHANGED << pc, lines, arg, result >>
    /\ UNCHANGED mainVars

\* lines 476-483: the last recipient, and the return
OcrFinish ==
    /\ pc = "parse_fnb_text"
    /\ i > Len(lines)
    /\ recipients' = IF current_name # "" /\ current_account # ""
                     THEN Append(recipients, Pending(OcrState)) ELSE recipients
    /\ result' = recipients'
    /\ pc' = "text_parsed"
    /\ UNCHANGED << lines, i, current_name, current_account, current_reference, arg >>
    /\ UNCHANGED mainVars

NextOcr == OcrLine \/ OcrFinish

SpecOcr == InitOcr /\ [][NextOcr]_vars

\* C4: the text "Jane Smith / 87654321 / Rent / Bob Jones / 11223344" yields exactly
\* the records {Jane Smith, 87654321, reference Rent} and {Bob Jones, 11223344,
\* reference Bob Jones}, in this order.
C4_ReferenceAttached ==
    (pc = "text_parsed" /\ arg = Scenario2Text) => result = << R1, R2 >>

----------------------------------------------------------------------------
(* The parsers of a page, each applied to inputs drawn from a bounded set. *)

Fragment(text, x, y) == [text |-> text, x |-> x, y |-> y]

\* the fragments pages are built from: names in the name column, a month and an
\* amount in the name and in the reference column, the same account twice, accounts
\* of 7, 11 and 12 digits, and two references in one y level
PageFragments ==
    { Fragment("P Holroyd", 20, 100), Fragment("X", 20, 100),
      Fragment("Jan", 20, 110), Fragment("1,234.56", 20, 110),
      Fragment("12345678", 20, 130), Fragment("12345678", 200, 130),
      Fragment("12345678901", 20, 135),
      Fragment("1234567", 20, 130), Fragment("123456789012", 20, 130),
      Fragment("Rent", 450, 100), Fragment("Gift", 450, 101),
      Fragment("Jan", 450, 110), Fragment("1,234.56", 450, 110) }

\* pages with a name, references and the account: two references in one y
\* level, in both orders; one reference in each of two y levels, the lower level
\* first on the page; two references in one y level and one in another
ScenarioPages ==
    { << Fragment("P Holroyd", 20, 100), Fragment("Rent", 450, 100),
         Fragment("Gift", 450, 101), Fragment("12345678", 20, 130) >>,
      << Fragment("P Holroyd", 20, 100), Fragment("Gift", 450, 101),
         Fragment("Rent", 450, 100), Fragment("12345678", 20, 130) >>,
      << Fragment("P Holroyd", 20, 100), Fragment("Fees", 450, 110),
         Fragment("Rent", 450, 100), Fragment("12345678", 20, 130) >>,
      << Fragment("P Holroyd", 20, 100), Fragment("Rent", 450, 100),
         Fragment("Gift", 450, 101), Fragment("Fees", 450, 110),
         Fragment("12345678", 20, 130) >> }

Pages == SeqsUpTo(PageFragments, MaxFrags) \cup ScenarioPages

\* page.extract_words(...): one word per fragment
AsWords(page) == Map(page, LAMBDA f : [text |-> f.text, x0 |-> f.x, top |-> f.y])

\* page.get_text("dict")["blocks"]: an image block, which has no lines, then one
\* text block of one line of one span per fragment
AsBlocks(page) ==
    << [type |-> 1, bbox |-> << 0, 0, 10, 10 >>] >> \o
    Map(page, LAMBDA f :
        [type |-> 0, bbox |-> << f.x, f.y, f.x + 10, f.y + 10 >>,
         lines |-> << [spans |-> << [text |-> f.text,
                                     bbox |-> << f.x, f.y, f.x + 10, f.y + 10 >>] >>] >>])

InitWords ==
    /\ pc = "parse_pdfplumber_words"
    /\ \E page \in Pages : arg = AsWords(page)
    /\ result = << >>
    /\ recipients = << >>
    /\ IdleMain /\ IdleOcr

InitBlocks ==
    /\ pc = "parse_pymupdf_blocks_v2"
    /\ \E page \in Pages : arg = AsBlocks(page)
    /\ result = << >>
    /\ recipients = << >>
    /\ IdleMain /\ IdleOcr

ParseWords ==
    /\ pc = "parse_pdfplumber_words"
    /\ result' = parse_pdfplumber_words(arg)
    /\ pc' = "words_parsed"
    /\ UNCHANGED << arg, recipients >>
    /\ UNCHANGED mainVars /\ UNCHANGED ocrVars

ParseBlocks ==
    /\ pc = "parse_pymupdf_blocks_v2"
    /\ result' = parse_pymupdf_blocks_v2(arg)
    /\ pc' = "blocks_parsed"
    /\ UNCHANGED << arg, recipients >>
    /\ UNCHANGED mainVars /\ UNCHANGED ocrVars

NextAssemble == ParseWords \/ ParseBlocks

InitAssemble == InitWords \/ InitBlocks

SpecAssemble == InitAssemble /\ [][NextAssemble]_vars

\* the rows tables are built from; a None cell is ""
TableRows ==
    { << "P Holroyd", "12345678", "1,234.56", "Rent" >>,
      << "Bob Jones 11223344", "", "01 Jan 2025" >>,
      << "X", "12345678901", "Inactive Recipient" >>,
      << "Name", "Pay Amount", "Last Paid" >>,
      << "", "" >>,
      << "Jane Smith 12", "1234567", "123456789012" >>,
      << "87654321 ab" >> }

InitTable ==
    /\ pc = "parse_fnb_table"
    /\ arg \in SeqsUpTo(TableRows, MaxRows)
    /\ result = << >>
    /\ recipients = << >>
    /\ IdleMain /\ IdleOcr

ParseTable ==
    /\ pc = "parse_fnb_table"
    /\ result' = parse_fnb_table(arg)
    /\ pc' = "table_parsed"
    /\ UNCHANGED << arg, recipients >>
    /\ UNCHANGED mainVars /\ UNCHANGED ocrVars

\* the four parsers
NextParse == ParseWords \/ ParseBlocks \/ ParseTable \/ OcrLine \/ OcrFinish

InitParse == InitWords \/ InitBlocks \/ InitTable \/ InitOcr

SpecParse == InitParse /\ [][NextParse]_vars

----------------------------------------------------------------------------
(* Claims about the parsers. *)

AssemblerDone == pc \in {"words_parsed", "blocks_parsed"}

\* the texts of the fragments of the page that was parsed, stripped
FragmentTexts ==
    IF pc \in {"parse_pdfplumber_words", "words_parsed"}
    THEN Map(arg, LAMBDA word : Strip(word.text))
    ELSE Map(SelectSeq(arg, LAMBDA block : "lines" \in DOMAIN block),
             LAMBDA block : Strip(block.lines[1].spans[1].text))

\* how many records of result have this account
RecordsWith(account) == Cardinality({m \in 1..Len(result) : result[m].account = account})
\* how many fragments of the page have this text
FragmentsWith(text) ==
    Cardinality({k \in 1..Len(FragmentTexts) : FragmentTexts[k] = text})

\* C7 as stated: one pass of an assembler never returns two records with the same
\* account number.
C7_AnchorExclusivity ==
    AssemblerDone =>
       \A m, n \in 1..Len(result) : m # n => result[m].account # result[n].account

\* C7 amended: one pass of an assembler returns at most one record per account
\* anchor: the records with a given account number are never more than the
\* fragments of the page whose text is that account number; so when no account
\* text occurs as two fragments, no two records have the same account number.
C7_OneRecordPerAnchor ==
    AssemblerDone =>
       /\ \A m \in 1..Len(result) :
             RecordsWith(result[m].account) <= FragmentsWith(result[m].account)
       /\ (\A j, k \in 1..Len(FragmentTexts) :
              (j # k /\ IsAccountText(FragmentTexts[j])) => FragmentTexts[j] # FragmentTexts[k])
          => \A m, n \in 1..Len(result) : m # n => result[m].account # result[n].account

\* C7 witness: the same account text occurs as two fragments of the page, and the
\* pass returned two records with that account.
C7_Witness ==
    /\ AssemblerDone
    /\ \E m, n \in 1..Len(result) :
          /\ m # n /\ result[m].account = result[n].account
          /\ FragmentsWith(result[m].account) = 2

\* the words of a text between single blanks
Tokens(text) == LET parts == Split(text, " ") IN {parts[k] : k \in 1..Len(parts)}

\* C8: in both assemblers, a fragment whose text is a monetary amount or a
\* three-letter month abbreviation is in no record's name and in no record's
\* reference.
C8_ClassifierExclusion ==
    AssemblerDone =>
       \A k \in 1..Len(FragmentTexts) :
          (IsMoney(FragmentTexts[k]) \/ FragmentTexts[k] \in Months) =>
             \A m \in 1..Len(result) :
                /\ FragmentTexts[k] \notin Tokens(result[m].name)
                /\ FragmentTexts[k] \notin Tokens(result[m].reference)

\* the records emitted so far by the parser that runs or has run
Emitted ==
    IF pc \in {"words_parsed", "blocks_parsed", "table_parsed"} THEN result ELSE recipients

\* C9: every record a parser emits has an account of 8 to 11 digits and a name of
\* more than one character.
C9_RecordInvariant ==
    \A m \in 1..Len(Emitted) :
       /\ Len(Emitted[m].account) \in 8..11
       /\ AllIn(Emitted[m].account, Digits)
       /\ Emitted[m].name # ""
       /\ Len(Emitted[m].name) > 1

----------------------------------------------------------------------------
(* Claims about the reference of a record. *)

WordsVariant == pc \in {"parse_pdfplumber_words", "words_parsed"}

\* the fragments of the page that was parsed, in page order, with their positions
ParsedFragments ==
    IF WordsVariant
    THEN Map(arg, LAMBDA word : Fragment(Strip(word.text), word.x0, word.top))
    ELSE Map(SelectSeq(arg, LAMBDA block : "lines" \in DOMAIN block),
             LAMBDA block : Fragment(Strip(block.lines[1].spans[1].text),
                                     block.lines[1].spans[1].bbox[1],
                                     block.lines[1].spans[1].bbox[2]))

\* a fragment in the reference column of the variant that ran
InReferenceColumn(f) ==
    f.x > (IF WordsVariant THEN WordRefColumnMin ELSE SpanRefColumnMin)

\* a reference-column fragment the variant that ran filters out: an amount in
\* both variants, a month abbreviation in the coordinate-word variant
FilteredOut(f) == IsMoney(f.text) \/ (WordsVariant /\ f.text \in Months)

\* the page of end-to-end scenario 1, and its record
Scenario1Page == << Fragment("P Holroyd", 20, 100), Fragment("12345678", 20, 130) >>
Scenario1Record == [name |-> "P Holroyd", account |-> "12345678", reference |-> "P Holroyd"]

\* C11: in both assemblers, when every fragment of the reference column is
\* filtered out (or the column is empty), the reference of every record equals
\* its name; and the page with "P Holroyd" at (20, 100) and "12345678" at
\* (20, 130) yields exactly the record {P Holroyd, 12345678, reference P Holroyd}.
C11_ReferenceDefaultsToName ==
    AssemblerDone =>
       /\ (\A k \in 1..Len(ParsedFragments) :
              InReferenceColumn(ParsedFragments[k]) => FilteredOut(ParsedFragments[k]))
          => \A m \in 1..Len(result) : result[m].reference = result[m].name
       /\ ParsedFragments = Scenario1Page => result = << Scenario1Record >>

\* C11 witness: the block-span variant has parsed the page of scenario 1 and
\* returned its one record, whose reference is the name.
C11_Witness ==
    /\ pc = "blocks_parsed"
    /\ ParsedFragments = Scenario1Page
    /\ result = << Scenario1Record >>

\* the same for the coordinate-word variant
C11_WitnessWords ==
    /\ pc = "words_parsed"
    /\ ParsedFragments = Scenario1Page
    /\ result = << Scenario1Record >>

----------------------------------------------------------------------------
(* Claims about the steps of the OCR line state machine. *)

\* both a name and an account are pending
OcrComplete == current_name # "" /\ current_account # ""

\* a turn of the loop, and the step after the last line
LineStep   == pc = "parse_fnb_text" /\ i <= Len(lines) /\ i' = i + 1
FinishStep == pc = "parse_fnb_text" /\ pc' = "text_parsed"

\* the line of this turn, and the account number in it ("" when it has none)
CurrentLine    == Strip(lines[i])
CurrentAccount == SearchAccount(CurrentLine).group

\* the line of this turn is an account line: not passed over, and an account
\* number alone or in a line of fewer than 20 characters
AccountLineNow ==
    /\ ~OcrSkipped(CurrentLine)
    /\ SearchAccount(CurrentLine).start # 0
    /\ (CurrentLine = CurrentAccount \/ Len(CurrentLine) < ShortLineLen)

\* the line of this turn is a name line
NameLineNow ==
    /\ ~OcrSkipped(CurrentLine)
    /\ ~AccountLineNow
    /\ HasLetterRun(CurrentLine)
    /\ ~IsAllDigits(CurrentLine)

\* the step appends exactly one record, the pending name and account, after the
\* records emitted before
EmitsPending ==
    /\ Len(recipients') = Len(recipients) + 1
    /\ SubSeq(recipients', 1, Len(recipients)) = recipients
    /\ recipients'[Len(recipients')].name = current_name
    /\ recipients'[Len(recipients')].account = current_account

\* the step replaces the pending name or the pending account
Overwritten == current_name' # current_name \/ current_account' # current_account

C12_Step ==
    /\ (LineStep /\ AccountLineNow /\ current_name # "" /\ current_account = "")
          => /\ current_account' = CurrentAccount
             /\ current_name' = current_name
             /\ recipients' = recipients
    /\ (LineStep /\ AccountLineNow /\ OcrComplete)
          => /\ EmitsPending
             /\ current_name' = ""
             /\ current_account' = CurrentAccount
    /\ (LineStep /\ NameLineNow /\ OcrComplete)
          => /\ EmitsPending
             /\ current_account' = CurrentAccount
    /\ (FinishStep /\ OcrComplete) => EmitsPending
    /\ (OcrComplete /\ Overwritten) => EmitsPending
    /\ recipients' # recipients
          => /\ OcrComplete
             /\ EmitsPending
             /\ FinishStep \/ (LineStep /\ (AccountLineNow \/ NameLineNow))
    /\ FinishStep => result' = recipients'

\* C12: in every step of parse_fnb_text: an account line that arrives while a
\* name is pending without an account attaches the account to that name and
\* emits nothing; when a name and an account are both pending, an account line,
\* a name line and the end of the input each emit the pending record before
\* the state is overwritten; after the flush by an account line the pending
\* name is empty and the pending account is the new account; the records
\* change only by the append of the one complete pending pair, so each
\* completed pair is emitted once, in input order, and none is dropped.
C12_OcrStateMachine == [][C12_Step]_vars

\* C12 witness: "Jane Smith", "87654321", "11223344" have been read: the second
\* account line has flushed {Jane Smith, 87654321} and is the pending account.
C12_Witness ==
    /\ pc = "parse_fnb_text"
    /\ i = 4
    /\ lines = << "Jane Smith", "87654321", "11223344" >>
    /\ Len(recipients) = 1
    /\ recipients[1].name = "Jane Smith" /\ recipients[1].account = "87654321"
    /\ current_name = "" /\ current_account = "11223344"

\* the reference-column fragments that survive the filters of the variant that
\* ran for the account at acc_y, in page order
RefSurvivors(acc_y) ==
    SelectSeq(ParsedFragments,
              LAMBDA f : /\ InReferenceColumn(f)
                         /\ Above(acc_y, f.y, IF WordsVariant THEN NameWindow ELSE SpanRefWindow)
                         /\ ~FilteredOut(f))

\* the y-level bucket of a fragment in the variant that ran
YLevel(f) == Round(f.y, IF WordsVariant THEN WordPosGrid ELSE SpanYGrid)

\* the survivors of one y level, in page order
AtLevel(survivors, level) == SelectSeq(survivors, LAMBDA f : YLevel(f) = level)

\* the texts the rule chooses, y level by y level in ascending order: the second
\* fragment of a level of two, the fragment of a level of one
RECURSIVE ChosenTexts(_, _)
ChosenTexts(survivors, levels) ==
    IF levels = {} THEN << >>
    ELSE LET level == CHOOSE l \in levels : \A o \in levels : l <= o
             here  == AtLevel(survivors, level)
         IN  << here[Len(here)].text >> \o ChosenTexts(survivors, levels \ {level})

\* the y levels of the survivors
LevelsOf(survivors) == {YLevel(survivors[k]) : k \in 1..Len(survivors)}

\* the rule applies: some fragment survives, and no y level holds more than two
RuleApplies(survivors) ==
    /\ survivors # << >>
    /\ \A level \in LevelsOf(survivors) : Len(AtLevel(survivors, level)) <= 2

\* every record's reference is what the rule builds for an anchor of its account
ReferenceBySecondOfLevel ==
    \A m \in 1..Len(result) :
       \A k \in 1..Len(ParsedFragments) :
          LET anchor    == ParsedFragments[k]
              survivors == RefSurvivors(anchor.y)
          IN  (anchor.text = result[m].account /\ RuleApplies(survivors))
                 => result[m].reference =
                       Join(ChosenTexts(survivors, LevelsOf(survivors)), " ")

\* C13: in both assemblers, for each anchor the reference is built y level by
\* y level in ascending y order: of two surviving reference-column fragments in
\* one y level only the second in fragment order contributes, a fragment alone
\* in its y level contributes, and the chosen fragments are joined with single
\* spaces.
C13_SecondOfLevel == AssemblerDone => ReferenceBySecondOfLevel

\* the rule in the block-span variant alone
BlockSpanSecondOfLevel == pc = "blocks_parsed" => ReferenceBySecondOfLevel

\* the coordinate-word variant has parsed a page with "Rent" and then "Gift" in
\* one y level and returned the first of them as the reference
WordsKeepFirstOfLevel ==
    /\ pc = "words_parsed"
    /\ ParsedFragments = << Fragment("P Holroyd", 20, 100), Fragment("Rent", 450, 100),
                            Fragment("Gift", 450, 101), Fragment("12345678", 20, 130) >>
    /\ result = << [name |-> "P Holroyd", account |-> "12345678", reference |-> "Rent"] >>

====
